---- MODULE Spec2Model ----
(***************************************************************************)
(* Model of planners/mind/networks/network.py: the forward computation of  *)
(* ScenePredNet (ActorNet, LaneNet, RelaFusionNet, FusionNet,              *)
(* SceneDecoder).                                                          *)
(*                                                                         *)
(* A tensor is modelled by its shape (a sequence of naturals); where a     *)
(* claim needs more, by the identity of its rows (which input row a row    *)
(* was computed from) or by exact rational values (the basis matrices).    *)
(* An exception raised by the code is the shape Err or a status string     *)
(* naming the exception.                                                   *)
(***************************************************************************)
EXTENDS Integers, Sequences, FiniteSets, TLC

VARIABLES cfg, net, call, ret

vars == <<cfg, net, call, ret>>

(***************************************************************************)
(* Bounds of the model.                                                    *)
(***************************************************************************)
MaxSegs == 3
MaxActors == 2
MaxScenes == 2
MaxTokens == 3
MaxLayers == 3
MaxSceneLayers == 1
MaxHidden == 3
MaxSteps == 3
MaxModes == 2

(***************************************************************************)
(* Program constants.                                                      *)
(***************************************************************************)
N_ORDER == 7
PROJ_RPE_IN == 20
REG_CH == 5
POS_CH == 2
DEC_NHEAD == 4

(***************************************************************************)
(* Shapes and the torch operations the code applies to them.               *)
(*                                                                         *)
(* The({e(v) : v \in {t}}) is e(t) with t evaluated once and named v.      *)
(***************************************************************************)
The(S) == CHOOSE v \in S : TRUE

Err == <<-1>>

IsErr(s) == s = Err

Last(s) == s[Len(s)]

SetLast(s, v) == [s EXCEPT ![Len(s)] = v]

Ones(n) == [i \in 1..n |-> 1]

\* nn.Linear(nin, nout): the last axis must have size nin
Linear(nin, nout, t) ==
    The({IF IsErr(s) \/ Len(s) = 0 THEN Err
         ELSE IF Last(s) # nin THEN Err ELSE SetLast(s, nout) : s \in {t}})

\* nn.LayerNorm(h): the last axis must have size h
LayerNorm(h, t) ==
    The({IF IsErr(s) \/ Len(s) = 0 THEN Err
         ELSE IF Last(s) # h THEN Err ELSE s : s \in {t}})

\* Linear -> LayerNorm -> ReLU
LinNormRelu(nin, nout, t) == LayerNorm(nout, Linear(nin, nout, t))

\* Tensor.squeeze(): drops EVERY axis of size 1
Squeeze(t) ==
    The({IF IsErr(s) THEN Err ELSE SelectSeq(s, LAMBDA d : d # 1) : s \in {t}})

\* Tensor.unsqueeze(dim), dim 0-based
Unsqueeze(t, dim) ==
    The({IF IsErr(s) \/ dim > Len(s) THEN Err
         ELSE SubSeq(s, 1, dim) \o <<1>> \o SubSeq(s, dim + 1, Len(s)) : s \in {t}})

\* Tensor.permute(perm), perm 0-based and of the tensor's rank
Permute(t, perm) ==
    The({IF IsErr(s) \/ Len(s) # Len(perm) THEN Err
         ELSE [i \in 1..Len(perm) |-> s[perm[i] + 1]] : s \in {t}})

\* Tensor.repeat(reps): the shape is left-padded with ones to Len(reps)
Repeat(t, reps) ==
    The({IF IsErr(s) \/ Len(reps) < Len(s) THEN Err
         ELSE LET p == Ones(Len(reps) - Len(s)) \o s
              IN  [i \in 1..Len(reps) |-> p[i] * reps[i]] : s \in {t}})

\* broadcasting of a binary elementwise operation
Bcast(t, u) ==
    The({IF IsErr(a) \/ IsErr(b) THEN Err
         ELSE LET n  == IF Len(a) > Len(b) THEN Len(a) ELSE Len(b)
                  pa == Ones(n - Len(a)) \o a
                  pb == Ones(n - Len(b)) \o b
              IN  IF \A i \in 1..n : pa[i] = pb[i] \/ pa[i] = 1 \/ pb[i] = 1
                  THEN [i \in 1..n |-> IF pa[i] = 1 THEN pb[i] ELSE pa[i]]
                  ELSE Err : a \in {t}, b \in {u}})

\* torch.cat of two tensors along axis ax (1-based position in the shape;
\* 0 stands for the last axis)
Cat2(t, u, ax0) ==
    The({IF IsErr(a) \/ IsErr(b) THEN Err
         ELSE IF a = <<0>> THEN b      \* a 1-D empty tensor is skipped
         ELSE IF b = <<0>> THEN a
         ELSE LET ax == IF ax0 = 0 THEN Len(a) ELSE ax0
              IN  IF Len(a) # Len(b) \/ ax < 1 \/ ax > Len(a) THEN Err
                  ELSE IF \A i \in 1..Len(a) : i = ax \/ a[i] = b[i]
                       THEN [a EXCEPT ![ax] = a[ax] + b[ax]]
                       ELSE Err : a \in {t}, b \in {u}})

\* torch.cat([a, b], dim=-1)
CatLast(a, b) == Cat2(a, b, 0)

\* torch.cat([a, b], dim=0)
CatFirst(a, b) == Cat2(a, b, 1)

\* x[idcs] with an index tensor of n entries whose largest entry is mx
IndexRows(t, n, mx) ==
    The({IF IsErr(s) \/ Len(s) = 0 THEN Err
         ELSE IF n > 0 /\ mx >= s[1] THEN Err
         ELSE <<n>> \o Tail(s) : s \in {t}})

\* x[i] with an integer i (0-based)
IndexOne(t, i) ==
    The({IF IsErr(s) \/ Len(s) = 0 THEN Err
         ELSE IF i < 0 \/ i >= s[1] THEN Err ELSE Tail(s) : s \in {t}})

\* x[-1]
IndexLast(t) ==
    The({IF IsErr(s) \/ Len(s) = 0 THEN Err
         ELSE IF s[1] = 0 THEN Err ELSE Tail(s) : s \in {t}})

\* x[lo:hi] on the first axis (python slice, hi may be negative)
SliceRows(t, lo, hi) ==
    The({IF IsErr(s) \/ Len(s) = 0 THEN Err
         ELSE LET h  == IF hi < 0 THEN s[1] + hi ELSE hi
                  hh == IF h > s[1] THEN s[1] ELSE IF h < 0 THEN 0 ELSE h
                  ll == IF lo > s[1] THEN s[1] ELSE lo
              IN  <<IF hh > ll THEN hh - ll ELSE 0>> \o Tail(s) : s \in {t}})

\* MultiheadAttention(embed_dim=e, batch_first=False)(q, k, k)
MultiheadAttn(e, t, u) ==
    The({IF IsErr(q) \/ IsErr(k) THEN Err
         ELSE IF Len(q) = 3 /\ Len(k) = 3
              THEN IF q[2] = k[2] /\ q[3] = e /\ k[3] = e THEN q ELSE Err
         ELSE IF Len(q) = 2 /\ Len(k) = 2
              THEN IF q[2] = e /\ k[2] = e THEN q ELSE Err
         ELSE Err : q \in {t}, k \in {u}})

(***************************************************************************)
(* PointAggregateBlock and LaneNet.                                        *)
(***************************************************************************)
\* F.adaptive_max_pool1d(feat.permute(0, 2, 1), 1).permute(0, 2, 1)
GlobalMaxpoolAggre(feat) ==
    The({IF IsErr(p) THEN Err ELSE Permute(<<p[1], p[2], 1>>, <<0, 2, 1>>) :
            p \in {Permute(feat, <<0, 2, 1>>)}})

\* _global_maxpool_aggre(out).squeeze()
AggreOut(pooled) == Squeeze(pooled)

\* self.fc1(x_inp)
Fc1(h, x_inp) == LinNormRelu(h, h, LinNormRelu(h, h, x_inp))

\* torch.cat([x, x_aggre.repeat([1, x.shape[1], 1])], dim=-1)
WithAggre(t) ==
    The({IF IsErr(x) THEN Err
         ELSE CatLast(x, Repeat(GlobalMaxpoolAggre(x), <<1, x[2], 1>>)) : x \in {t}})

PointAggregateBlock(h, aggre_out, t) ==
    The({LET fc2 == LinNormRelu(h, h, LinNormRelu(2 * h, h, WithAggre(Fc1(h, x_inp))))
             out == LayerNorm(h, Bcast(x_inp, fc2))
         IN  IF aggre_out THEN AggreOut(GlobalMaxpoolAggre(out)) ELSE out :
            x_inp \in {t}})

LaneNet(in_size, h, feats) ==
    PointAggregateBlock(h, TRUE,
        PointAggregateBlock(h, FALSE, LinNormRelu(in_size, h, feats)))

(***************************************************************************)
(* RelaFusionLayer and RelaFusionNet.                                      *)
(***************************************************************************)
\* self.proj_memory(torch.cat([edge, src_x, tar_x], dim=-1))
Memory(d_model, d_edge, node, edge) ==
    LET n_token == node[1]
        src_x   == Repeat(Unsqueeze(node, 0), <<n_token, 1, 1>>)
        tar_x   == Repeat(Unsqueeze(node, 1), <<1, n_token, 1>>)
    IN  LinNormRelu(d_model + d_model + d_edge, d_model,
                    CatLast(CatLast(edge, src_x), tar_x))

\* self.norm_edge(edge + self.proj_edge(memory)) when update_edge
EdgeOut(d_model, d_edge, update_edge, edge, memory) ==
    IF update_edge
    THEN LayerNorm(d_edge, Bcast(edge, LinNormRelu(d_model, d_edge, memory)))
    ELSE edge

\* returns <<node.unsqueeze(0), edge, memory>>
BuildMemory(d_model, d_edge, update_edge, t, u) ==
    The({IF IsErr(node) \/ IsErr(edge) \/ Len(node) = 0 THEN <<Err, Err, Err>>
         ELSE The({IF IsErr(memory) THEN <<Err, Err, Err>>
                   ELSE <<Unsqueeze(node, 0),
                          EdgeOut(d_model, d_edge, update_edge, edge, memory),
                          memory>> :
                      memory \in {Memory(d_model, d_edge, node, edge)}}) :
            node \in {t}, edge \in {u}})

\* self.norm2(x + x_prime).squeeze()
NodeOut(x) == Squeeze(x)

\* x = self.norm3(x + self._ff_block(x))
FeedForward(d_model, t) ==
    The({LayerNorm(d_model,
             Bcast(x, Linear(2 * d_model, d_model, Linear(d_model, 2 * d_model, x)))) :
            x \in {t}})

\* returns <<x, edge>>
RelaFusionLayer(d_model, d_edge, update_edge, node, edge) ==
    The({The({IF IsErr(x) \/ IsErr(bm[2]) THEN <<Err, Err>> ELSE <<x, bm[2]>> :
                 x \in {FeedForward(d_model,
                           NodeOut(LayerNorm(d_model,
                               Bcast(bm[1], MultiheadAttn(d_model, bm[1], bm[3])))))}}) :
            bm \in {BuildMemory(d_model, d_edge, update_edge, node, edge)}})

\* need_update_edge = False if i == n_layer - 1 else update_edge  (i 0-based)
\* need_update_edge of layer i (0-based) in RelaFusionNet.__init__
NeedUpdateEdge(i, n_layer, update_edge) ==
    IF i = n_layer - 1 THEN FALSE ELSE update_edge

\* the update_edge attribute of every layer of self.fusion, as built
LayersBuilt(n_layer, update_edge) ==
    [k \in 1..n_layer |-> NeedUpdateEdge(k - 1, n_layer, update_edge)]

\* which tensor a layer returns as edge: the one it builds itself (named by
\* the layer's 1-based position) when update_edge, else the one it received
EdgeTag(update_edge, received, layer) == IF update_edge THEN layer ELSE received

\* the edge tensor handed to layer k + 1: 0 names the caller's tensor
EdgeIn(trace) == IF Len(trace) = 0 THEN 0 ELSE trace[Len(trace)].edge

\* the state <<x, edge, updated>> after the first k layers; updated has one
\* entry for every layer that ran and returned, with its update_edge
\* attribute and the edge it returned.  A layer that raises ends the loop:
\* x and edge are Err from then on and no later layer is called.
RECURSIVE FusionLoop(_, _, _, _, _, _, _)
FusionLoop(d_model, d_edge, n_layer, update_edge, x, edge, k) ==
    IF k = 0 THEN <<x, edge, << >> >>
    ELSE The({IF IsErr(prev[1]) THEN prev
              ELSE The({IF IsErr(out[1]) THEN <<Err, Err, prev[3]>>
                        ELSE <<out[1], out[2],
                               Append(prev[3],
                                  [update_edge |->
                                      NeedUpdateEdge(k - 1, n_layer, update_edge),
                                   edge |->
                                      EdgeTag(NeedUpdateEdge(k - 1, n_layer, update_edge),
                                              EdgeIn(prev[3]), k)])>> :
                           out \in {RelaFusionLayer(d_model, d_edge,
                                       NeedUpdateEdge(k - 1, n_layer, update_edge),
                                       prev[1], prev[2])}}) :
                 prev \in {FusionLoop(d_model, d_edge, n_layer, update_edge,
                                      x, edge, k - 1)}})

\* the second element of what RelaFusionNet.forward returns
NoneValue == "None"

\* RelaFusionNet.forward returns (x, None)
RelaFusionNet(d_model, d_edge, n_layer, update_edge, x, edge) ==
    FusionLoop(d_model, d_edge, n_layer, update_edge, x, edge, n_layer)[1]

(***************************************************************************)
(* Rows of a tensor are identified by the input row they were computed     *)
(* from: an actor, a lane segment or a target node of a scene, or the CLS  *)
(* placeholder.                                                            *)
(***************************************************************************)
Label(kind, sid, k) == [kind |-> kind, sid |-> sid, k |-> k]

ClsLabel == Label("cls", 0, 0)

\* a fused token: the token it was, and the scene tokens it attended over
Fused(tok, ctx) == [src |-> tok, ctx |-> ctx]

RECURSIVE Flatten(_)
Flatten(ll) == IF Len(ll) = 0 THEN << >> ELSE Head(ll) \o Flatten(Tail(ll))

MaxIdx(idcs) == IF Len(idcs) = 0 THEN 0
                ELSE CHOOSE m \in {idcs[i] : i \in 1..Len(idcs)} :
                         \A i \in 1..Len(idcs) : idcs[i] <= m

\* rows[idcs] (idcs 0-based)
Gather(rows, idcs) == [i \in 1..Len(idcs) |-> rows[idcs[i] + 1]]

(***************************************************************************)
(* FusionNet.                                                              *)
(***************************************************************************)
\* torch.cat(list, dim=0) of a list of shapes
RECURSIVE CatList(_)
CatList(l) ==
    IF Len(l) = 0 THEN Err
    ELSE IF Len(l) = 1 THEN l[1]
    ELSE CatFirst(CatList(SubSeq(l, 1, Len(l) - 1)), l[Len(l)])

\* the edge tensor passed to fuse_scene: zeros (N, N, d_rpe) with the
\* projected scene RPE written into [:n, :n, :]
RpeWithCls(c, t, u, rpes) ==
    The({IF IsErr(tokens) \/ IsErr(tokens_with_cls) \/ IsErr(rpe) THEN Err
         ELSE IF Bcast(rpe, <<tokens[1], tokens[1], c.d_rpe>>)
                    = <<tokens[1], tokens[1], c.d_rpe>>
              THEN <<tokens_with_cls[1], tokens_with_cls[1], c.d_rpe>>
              ELSE Err :
            tokens \in {t}, tokens_with_cls \in {u},
            rpe \in {LinNormRelu(c.d_rpe_in, c.d_rpe, Permute(rpes, <<1, 2, 0>>))}})

SplitActorsShifted(out_rows, na) == SubSeq(out_rows, 2, na + 1)

\* out[:len(a_idcs)]
SplitActors(out_rows, na) == SubSeq(out_rows, 1, na)

\* out[len(a_idcs):-1]
SplitLanes(out_rows, na) == SubSeq(out_rows, na + 1, Len(out_rows) - 1)

\* out[-1].unsqueeze(0)
SplitCls(out_rows) == <<out_rows[Len(out_rows)]>>

NoFusedScene ==
    [ok |-> FALSE, actors |-> Err, lanes |-> Err, cls |-> Err,
     actor_rows |-> << >>, lane_rows |-> << >>, cls_rows |-> << >>,
     tokens |-> << >>, edge |-> Err]

\* the three slices of what fuse_scene returned for one scene
SplitScene(na, toks, edge, t) ==
    The({IF IsErr(out) \/ IsErr(IndexLast(out)) THEN NoFusedScene
         ELSE LET orows == [i \in 1..Len(toks) |-> Fused(toks[i], toks)]
              IN  [ok |-> TRUE,
                   actors |-> SliceRows(out, 0, na),
                   lanes |-> SliceRows(out, na, -1),
                   cls |-> Unsqueeze(IndexLast(out), 0),
                   actor_rows |-> SplitActors(orows, na),
                   lane_rows |-> SplitLanes(orows, na),
                   cls_rows |-> SplitCls(orows),
                   tokens |-> toks, edge |-> edge] : out \in {t}})

\* one iteration of the loop over scenes in FusionNet.forward;
\* actors and lanes are the projected tensors
FusionScene(c, actors, actor_rows, lanes, lane_rows, a_idcs, l_idcs, rpes) ==
    The({The({SplitScene(Len(a_idcs),
                         Gather(actor_rows, a_idcs) \o Gather(lane_rows, l_idcs)
                            \o <<ClsLabel>>,
                         edge,
                         RelaFusionNet(c.d_embed, c.d_rpe, c.n_scene_layer,
                                       c.update_edge, withcls, edge)) :
                 withcls \in {CatFirst(tokens, <<1, c.d_embed>>)},
                 edge \in {RpeWithCls(c, tokens, CatFirst(tokens, <<1, c.d_embed>>),
                                      rpes)}}) :
            tokens \in {CatFirst(IndexRows(actors, Len(a_idcs), MaxIdx(a_idcs)),
                                 IndexRows(lanes, Len(l_idcs), MaxIdx(l_idcs)))}})

\* zip(actor_idcs, lane_idcs, rpe_prep) stops at the shortest list
ZipLen(a, b, r) ==
    LET m == IF Len(a) < Len(b) THEN Len(a) ELSE Len(b)
    IN  IF m < Len(r) THEN m ELSE Len(r)

\* the per-scene results appended by the first k iterations of the loop
RECURSIVE FusionScenes(_, _, _, _, _, _, _, _, _)
FusionScenes(c, actors, actor_rows, actor_idcs, lanes, lane_rows, lane_idcs, rpe_prep, k) ==
    IF k = 0 THEN << >>
    ELSE The({IF Len(prev) < k - 1 \/ (k > 1 /\ ~prev[k - 1].ok) THEN prev
              ELSE Append(prev, FusionScene(c, actors, actor_rows, lanes, lane_rows,
                                            actor_idcs[k], lane_idcs[k], rpe_prep[k])) :
                 prev \in {FusionScenes(c, actors, actor_rows, actor_idcs, lanes,
                                        lane_rows, lane_idcs, rpe_prep, k - 1)}})

NoFusion ==
    [status |-> "RuntimeError", actors |-> Err, lanes |-> Err, cls |-> Err,
     actor_rows |-> << >>, lane_rows |-> << >>, cls_rows |-> << >>,
     scenes |-> << >>]

\* an entry of torch.zeros((N, N, d_rpe))
ZeroEdge == <<0, 0, 0>>

RpeWithClsRowsUnpadded(n_tokens, k) ==
    [i \in 1..(n_tokens + 1) |-> [j \in 1..(n_tokens + 1) |-> <<k, i, j>>]]

\* the entries of rpe_with_cls for the k-th scene of the loop, n_tokens its
\* actors and lanes: <<k, i, j>> names entry (i, j) of the projection of
\* rpe_prep[k]['scene'], written into [:n_tokens, :n_tokens, :] of the zeros
RpeWithClsRows(n_tokens, k) ==
    [i \in 1..(n_tokens + 1) |->
        [j \in 1..(n_tokens + 1) |->
            IF i <= n_tokens /\ j <= n_tokens THEN <<k, i, j>> ELSE ZeroEdge]]

\* torch.cat of the three lists after the loop
FusionCat(n, t) ==
    The({IF Len(per) < n \/ n = 0 THEN NoFusion
         ELSE IF ~per[n].ok THEN NoFusion
         ELSE The({IF IsErr(ca) \/ IsErr(cl) \/ IsErr(cc) THEN NoFusion
                   ELSE [status |-> "ok", actors |-> ca, lanes |-> cl, cls |-> cc,
                         actor_rows |-> Flatten([s \in 1..n |-> per[s].actor_rows]),
                         lane_rows |-> Flatten([s \in 1..n |-> per[s].lane_rows]),
                         cls_rows |-> Flatten([s \in 1..n |-> per[s].cls_rows]),
                         scenes |-> [s \in 1..n |->
                                       [tokens |-> per[s].tokens,
                                        edge |-> per[s].edge,
                                        edge_rows |->
                                           RpeWithClsRows(Len(per[s].tokens) - 1, s),
                                        edge_mask |-> NoneValue]]] :
                      ca \in {CatList([s \in 1..n |-> per[s].actors])},
                      cl \in {CatList([s \in 1..n |-> per[s].lanes])},
                      cc \in {CatList([s \in 1..n |-> per[s].cls])}}) :
            per \in {t}})

FusionNet(c, actors_in, actor_rows, actor_idcs, lanes_in, lane_rows, lane_idcs, rpe_prep) ==
    The({IF IsErr(actors) \/ IsErr(lanes) THEN NoFusion
         ELSE FusionCat(ZipLen(actor_idcs, lane_idcs, rpe_prep),
                  FusionScenes(c, actors, actor_rows, actor_idcs, lanes, lane_rows,
                               lane_idcs, rpe_prep,
                               ZipLen(actor_idcs, lane_idcs, rpe_prep))) :
            actors \in {LinNormRelu(c.d_actor, c.d_embed, actors_in)},
            lanes \in {LinNormRelu(c.d_lane, c.d_embed, lanes_in)}})

(***************************************************************************)
(* Exact arithmetic for the basis matrices: an entry is an integer         *)
(* numerator over the common denominator TsDen(n_step) ^ n_order.          *)
(***************************************************************************)
RECURSIVE Pow(_, _)
Pow(b, e) == IF e = 0 THEN 1 ELSE b * Pow(b, e - 1)

RECURSIVE Comb(_, _)
Comb(n, k) == IF k = 0 \/ k = n THEN 1
              ELSE IF k < 0 \/ k > n THEN 0
              ELSE Comb(n - 1, k - 1) + Comb(n - 1, k)

RECURSIVE Prod(_)
Prod(s) == IF Len(s) = 0 THEN 1 ELSE Head(s) * Prod(Tail(s))

RECURSIVE SumTo(_, _)
SumTo(f, n) == IF n = 0 THEN 0 ELSE f[n] + SumTo(f, n - 1)

\* np.linspace(0.0, 1.0, n_step, endpoint=True)[j - 1] = TsNum(j) / TsDen(n_step)
TsNum(j) == j - 1

TsDen(n_step) == IF n_step = 1 THEN 1 ELSE n_step - 1

\* row j (timestep), column i + 1 (control point i)
TMatrixBezierReversed(n_order, n_step) ==
    [j \in 1..n_step |-> [i1 \in 1..(n_order + 1) |->
        Comb(n_order, i1 - 1)
          * Pow(TsNum(j), n_order - (i1 - 1))
          * Pow(TsDen(n_step) - TsNum(j), i1 - 1)]]

TMatrixBezier(n_order, n_step) ==
    [j \in 1..n_step |-> [i1 \in 1..(n_order + 1) |->
        Comb(n_order, i1 - 1)
          * Pow(TsDen(n_step) - TsNum(j), n_order - (i1 - 1))
          * Pow(TsNum(j), i1 - 1)]]

TpMatrixBezier(n_order, n_step) ==
    [j \in 1..n_step |-> [i1 \in 1..n_order |->
        n_order * Comb(n_order - 1, i1 - 1)
          * Pow(TsDen(n_step) - TsNum(j), n_order - 1 - (i1 - 1))
          * Pow(TsNum(j), i1 - 1)]]

TMatrixMonomial(n_order, n_step) ==
    [j \in 1..n_step |-> [i1 \in 1..(n_order + 1) |->
        Pow(TsNum(j), i1 - 1) * Pow(TsDen(n_step), n_order - (i1 - 1))]]

TpMatrixMonomial(n_order, n_step) ==
    [j \in 1..n_step |-> [i1 \in 1..n_order |->
        i1 * Pow(TsNum(j), i1 - 1) * Pow(TsDen(n_step), n_order - 1 - (i1 - 1))]]

\* torch.matmul(mat, points) for one actor and mode: points is a sequence
\* of <<x, y>>; the result holds numerators over the matrix' denominator
MatMulPoints(mat, points) ==
    [j \in 1..Len(mat) |->
        <<SumTo([i \in 1..Len(points) |-> mat[j][i] * points[i][1]], Len(points)),
          SumTo([i \in 1..Len(points) |-> mat[j][i] * points[i][2]], Len(points))>>]

\* the shape of torch.matmul(mat, x) for a 2-D mat of shape m
MatMulShape(m, t) ==
    The({IF IsErr(x) \/ Len(x) < 2 \/ Len(m) # 2 THEN Err
         ELSE IF x[Len(x) - 1] # m[2] THEN Err
         ELSE [x EXCEPT ![Len(x) - 1] = m[1]] : x \in {t}})

\* Tensor.view(tgt) where tgt holds exactly one -1
View(t, tgt) ==
    The({IF IsErr(s) THEN Err
         ELSE LET known == Prod(SelectSeq(tgt, LAMBDA d : d # -1))
              IN  IF known = 0 THEN Err
                  ELSE IF Prod(s) % known # 0 THEN Err
                  ELSE [i \in 1..Len(tgt) |->
                           IF tgt[i] = -1 THEN Prod(s) \div known ELSE tgt[i]] :
            s \in {t}})

\* x[..., :n]
SliceLastTo(t, n) ==
    The({IF IsErr(s) \/ Len(s) = 0 THEN Err
         ELSE SetLast(s, IF Last(s) < n THEN Last(s) ELSE n) : s \in {t}})

\* x[..., n:]
SliceLastFrom(t, n) ==
    The({IF IsErr(s) \/ Len(s) = 0 THEN Err
         ELSE SetLast(s, IF Last(s) < n THEN 0 ELSE Last(s) - n) : s \in {t}})

\* torch.diff(x, dim=2) and x[:, :, 1:, :] on a 4-D tensor
DropOneDim2(t) ==
    The({IF IsErr(s) \/ Len(s) # 4 THEN Err
         ELSE [s EXCEPT ![3] = IF s[3] = 0 THEN 0 ELSE s[3] - 1] : s \in {t}})

(***************************************************************************)
(* SceneDecoder.                                                           *)
(***************************************************************************)
ParamOuts == {"bezier", "monomial", "none"}

\* which value of param_out reaches which branch of __init__
IsBezier(param_out) == param_out = "bezier"

IsMonomial(param_out) == param_out = "monomial"

IsNone(param_out) == param_out = "none"

RecognizedOrDefault(param_out) == TRUE

Recognized(param_out) == IsBezier(param_out) \/ IsMonomial(param_out) \/ IsNone(param_out)

\* the object left by SceneDecoder.__init__; status tells whether it raised
SceneDecoderInit(param_out, hidden_size, future_steps, num_modes) ==
    LET base == [status |-> "ok", param_out |-> param_out,
                 hidden_size |-> hidden_size, future_steps |-> future_steps,
                 num_modes |-> num_modes, rpe_in |-> PROJ_RPE_IN,
                 has_order |-> FALSE, n_order |-> 0,
                 mat_T |-> << >>, mat_Tp |-> << >>, den |-> 1, reg_out |-> 0]
    IN  IF hidden_size % DEC_NHEAD # 0
        THEN [base EXCEPT !.status = "AssertionError"]
        ELSE IF ~Recognized(param_out)
        THEN [base EXCEPT !.status = "NotImplementedError"]
        ELSE IF IsBezier(param_out)
        THEN [base EXCEPT !.has_order = TRUE, !.n_order = N_ORDER,
                          !.mat_T = TMatrixBezier(N_ORDER, future_steps),
                          !.mat_Tp = TpMatrixBezier(N_ORDER, future_steps),
                          !.den = Pow(TsDen(future_steps), N_ORDER),
                          !.reg_out = (N_ORDER + 1) * REG_CH]
        ELSE IF IsMonomial(param_out)
        THEN [base EXCEPT !.has_order = TRUE, !.n_order = N_ORDER,
                          !.mat_T = TMatrixMonomial(N_ORDER, future_steps),
                          !.mat_Tp = TpMatrixMonomial(N_ORDER, future_steps),
                          !.den = Pow(TsDen(future_steps), N_ORDER),
                          !.reg_out = (N_ORDER + 1) * REG_CH]
        ELSE [base EXCEPT !.reg_out = future_steps * REG_CH]

\* Linear(h, a) LN ReLU Linear(a, b) LN ReLU
Mlp2(h, a, b, s) == LinNormRelu(a, b, LinNormRelu(h, a, s))

\* Linear LN ReLU Linear LN ReLU Linear(h, nout)
Mlp3(h, nout, s) == Linear(h, nout, Mlp2(h, h, h, s))

\* TransformerEncoder over (S, B, E) or (S, E)
TransformerEnc(h, t) ==
    The({IF IsErr(s) THEN Err
         ELSE IF Len(s) \in {2, 3} /\ Last(s) = h THEN s ELSE Err : s \in {t}})

\* param[..., :2] and param[..., 2:]
PosSlice(param) == SliceLastTo(param, POS_CH)

CovSliceTwo(param) == SliceLastTo(SliceLastFrom(param, POS_CH), POS_CH)

CovSlice(param) == SliceLastFrom(param, POS_CH)

ClsOutNoPermute(cls) == cls

\* cls.permute(1, 0) followed by softmax over dim 1
ClsOut(cls) == Permute(cls, <<1, 0>>)

NoScene == [status |-> "RuntimeError", cls |-> Err, reg |-> Err, vel |-> Err,
            cov_vel |-> Err, param |-> Err, param_none |-> FALSE]

\* reg, vel, cov, cov_vel of one branch, from param, and the final torch.cat
Regress(dec, cls, t) ==
    The({LET rp    == Permute(PosSlice(param), <<1, 0, 2, 3>>)
             cp    == Permute(CovSlice(param), <<1, 0, 2, 3>>)
             mT    == <<dec.future_steps, dec.n_order + 1>>
             mTp   == <<dec.future_steps, dec.n_order>>
             basis == ~IsNone(dec.param_out)
         IN  The({IF IsErr(out) \/ IsErr(vel) \/ IsErr(cvel) \/ IsErr(cls)
                  THEN NoScene
                  ELSE [status |-> "ok", cls |-> ClsOut(cls), reg |-> out,
                        vel |-> vel, cov_vel |-> cvel, param |-> param,
                        param_none |-> ~basis] :
                     out \in {CatLast(IF basis THEN MatMulShape(mT, rp) ELSE rp,
                                      IF basis THEN MatMulShape(mT, cp) ELSE cp)},
                     vel \in {IF basis THEN MatMulShape(mTp, DropOneDim2(rp)) ELSE rp},
                     cvel \in {IF basis THEN MatMulShape(mTp, DropOneDim2(cp)) ELSE cp}}) :
            param \in {t}})

\* the regression branch of one loop iteration, from embed
DecodeBranch(dec, embed, cls) ==
    IF ~dec.has_order      \* self.N_ORDER is read in all three branches
    THEN [NoScene EXCEPT !.status = "AttributeError"]
    ELSE Regress(dec, cls,
             View(Mlp3(dec.hidden_size, dec.reg_out, embed),
                  <<dec.num_modes, -1, dec.n_order + 1, REG_CH>>))

\* .view(-1, self.num_modes, self.hidden_size).permute(1, 0, 2) of a projection
ModeEmbed(dec, x) ==
    Permute(View(Mlp2(dec.hidden_size, (dec.hidden_size * dec.num_modes) \div 2,
                      dec.hidden_size * dec.num_modes, x),
                 <<-1, dec.num_modes, dec.hidden_size>>),
            <<1, 0, 2>>)

\* tgt_embed = zeros_like(actor_embed); tgt_embed[0] = tgt[idx].unsqueeze(0)
TgtEmbed(t, tgt, idx) ==
    The({IF Bcast(Unsqueeze(IndexOne(tgt, idx), 0), IndexOne(act_e, 0))
               = IndexOne(act_e, 0) /\ ~IsErr(IndexOne(act_e, 0))
         THEN act_e ELSE Err : act_e \in {t}})

\* one iteration of the loop over actor_idcs (idx 0-based)
DecodeScene(dec, idx, ctx, actors, a_idcs, tgt) ==
    The({The({IF IsErr(embed) \/ IsErr(cls) THEN NoScene
              ELSE DecodeBranch(dec, embed, cls) :
                 embed \in {Bcast(Bcast(cls_e, act_e), TgtEmbed(act_e, tgt, idx))},
                 cls \in {View(Mlp3(dec.hidden_size, 1, cls_e),
                               <<dec.num_modes, -1>>)}}) :
            cls_e \in {TransformerEnc(dec.hidden_size,
                          ModeEmbed(dec, Unsqueeze(IndexOne(ctx, idx), 0)))},
            act_e \in {ModeEmbed(dec,
                          IndexRows(actors, Len(a_idcs), MaxIdx(a_idcs)))}})

\* the rows a scene group's output is computed from
DecodeSrc(idx, ctx_rows, actor_rows, a_idcs, tgt_rows) ==
    [ctx |-> ctx_rows[idx + 1], actors |-> Gather(actor_rows, a_idcs),
     tgt |-> tgt_rows[idx + 1]]

\* the row of torch.zeros_like
ZeroLabel == Label("zero", 0, 0)

TgtEmbedRowsAllModes(num_modes, n, tgt_rows, idx) ==
    [k \in 1..num_modes |-> [a \in 1..n |-> tgt_rows[idx + 1]]]

\* the rows of tgt_embed, mode by mode (k = 1 is mode index 0) and actor by
\* actor: zeros_like(actor_embed), then tgt_embed[0] = tgt[idx].unsqueeze(0)
TgtEmbedRows(num_modes, n, tgt_rows, idx) ==
    [k \in 1..num_modes |->
        [a \in 1..n |-> IF k = 1 THEN tgt_rows[idx + 1] ELSE ZeroLabel]]

\* the three terms of embed = cls_embed + actor_embed + tgt_embed, mode by
\* mode and actor by actor; cls_embed (K, 1, h) is broadcast over the actors
EmbedTerms(num_modes, idx, ctx_rows, actor_rows, a_idcs, tgt_rows) ==
    [k \in 1..num_modes |->
        [a \in 1..Len(a_idcs) |->
            [ctx   |-> [mode |-> k - 1, row |-> ctx_rows[idx + 1]],
             actor |-> [mode |-> k - 1, row |-> Gather(actor_rows, a_idcs)[a]],
             tgt   |-> TgtEmbedRows(num_modes, Len(a_idcs), tgt_rows, idx)[k][a]]]]

NoResult(status) ==
    [status |-> status, res_cls |-> << >>, res_reg |-> << >>, res_aux |-> << >>,
     src |-> << >>, embed |-> << >>, pos |-> << >>]

\* the per-scene results appended by the first k iterations of the loop
RECURSIVE DecodeScenes(_, _, _, _, _, _)
DecodeScenes(dec, ctx, actors, actor_idcs, tgt, k) ==
    IF k = 0 THEN << >>
    ELSE The({IF Len(prev) < k - 1 \/ (k > 1 /\ prev[k - 1].status # "ok") THEN prev
              ELSE Append(prev, DecodeScene(dec, k - 1, ctx, actors,
                                            actor_idcs[k], tgt)) :
                 prev \in {DecodeScenes(dec, ctx, actors, actor_idcs, tgt, k - 1)}})

\* res_cls, res_reg, res_aux as returned after the loop
DecodeLists(dec, n, t, ctx_rows, actor_rows, actor_idcs, tgt_rows) ==
    The({IF Len(per) < n THEN NoResult(per[Len(per)].status)
         ELSE IF n > 0 /\ per[n].status # "ok" THEN NoResult(per[n].status)
         ELSE [status  |-> "ok",
               res_cls |-> [s \in 1..n |-> per[s].cls],
               res_reg |-> [s \in 1..n |-> per[s].reg],
               res_aux |-> [s \in 1..n |->
                              [vel |-> per[s].vel, cov_vel |-> per[s].cov_vel,
                               param |-> per[s].param,
                               param_none |-> per[s].param_none]],
               src     |-> [s \in 1..n |->
                              DecodeSrc(s - 1, ctx_rows, actor_rows,
                                        actor_idcs[s], tgt_rows)],
               embed   |-> [s \in 1..n |->
                              EmbedTerms(dec.num_modes, s - 1, ctx_rows, actor_rows,
                                         actor_idcs[s], tgt_rows)],
               pos     |-> << >>] : per \in {t}})

\* tgt_feat.unsqueeze(0) if it is 1-D
TgtFeat(t) ==
    The({IF IsErr(feat) THEN Err
         ELSE IF Len(feat) = 1 THEN Unsqueeze(feat, 0) ELSE feat : feat \in {t}})

\* SceneDecoder.forward (shapes and row identities of what it returns)
SceneDecoder(dec, ctx, ctx_rows, actors, actor_rows, actor_idcs, tgt_feat, tgt_rows, tgt_rpes) ==
    The({IF IsErr(actors) \/ IsErr(ctx) \/ IsErr(tgt) THEN NoResult("RuntimeError")
         ELSE DecodeLists(dec, Len(actor_idcs),
                  DecodeScenes(dec, ctx, actors, actor_idcs, tgt, Len(actor_idcs)),
                  ctx_rows, actor_rows, actor_idcs, tgt_rows) :
            tgt \in {Mlp2(2 * dec.hidden_size, dec.hidden_size, dec.hidden_size,
                          CatLast(TgtFeat(tgt_feat),
                                  LinNormRelu(dec.rpe_in, dec.hidden_size, tgt_rpes)))}})

\* reg = torch.matmul(self.mat_T, reg_param) for the first actor and mode of
\* a completed forward r, where ctrl is the position part of what self.reg
\* yields there (N_ORDER + 1 control points <<x, y>>)
WithTrajectory(dec, r, ctrl) ==
    IF r.status = "ok" /\ dec.has_order
    THEN [r EXCEPT !.pos = MatMulPoints(dec.mat_T, ctrl)]
    ELSE r

(***************************************************************************)
(* ActorNet and ScenePredNet.                                              *)
(***************************************************************************)
\* the length of the time axis after group i (0-based) of self.groups: the
\* first group keeps it, every later one halves it (stride 2, kernel 3,
\* padding 1)
RECURSIVE FpnLen(_, _)
FpnLen(len, i) == IF i = 0 THEN len ELSE (FpnLen(len, i - 1) - 1) \div 2 + 1

\* the length of out once levels n - 1 down to i are merged, -1 when
\* `out += self.lateral[i](outputs[i])` cannot broadcast into out
RECURSIVE FpnMerge(_, _, _)
FpnMerge(len, i, n) ==
    IF i = n - 1 THEN FpnLen(len, n - 1)
    ELSE The({IF up = -1 THEN -1
              ELSE IF FpnLen(len, i) = 2 * up \/ FpnLen(len, i) = 1 THEN 2 * up
              ELSE -1 : up \in {FpnMerge(len, i + 1, n)}})

\* ActorNet.forward, (A, C, T) -> (A, hidden_size): the last timestep of the
\* merged pyramid of n_fpn_scale >= 1 levels
ActorNet(n_in, hidden_size, n_fpn_scale, t) ==
    The({IF IsErr(actors) \/ Len(actors) # 3 \/ n_fpn_scale < 1 THEN Err
         ELSE IF actors[2] # n_in \/ actors[3] = 0 THEN Err
         ELSE IF FpnMerge(actors[3], 0, n_fpn_scale) = -1 THEN Err
         ELSE <<actors[1], hidden_size>> : actors \in {t}})

\* ScenePredNet.__init__: the decoder is the only part that can reject cfg
ScenePredNetInit(c) ==
    LET dec == SceneDecoderInit(c.param_out, c.d_embed, c.g_pred_len, c.g_num_modes)
    IN  [status |-> dec.status, dec |-> dec]

NotBuilt == [status |-> "new", dec |-> SceneDecoderInit("none", 4, 1, 1)]

\* a scene: sid names its data, na actors, nl lane segments
Scene(sid, na, nl) == [sid |-> sid, na |-> na, nl |-> nl]

RECURSIVE Offset(_, _, _)
Offset(batch, s, fld) ==
    IF s = 1 THEN 0 ELSE Offset(batch, s - 1, fld) + batch[s - 1][fld]

\* the index lists of a ragged batch: scene s owns a contiguous range
Idcs(batch, fld) ==
    [s \in 1..Len(batch) |->
        [i \in 1..batch[s][fld] |-> Offset(batch, s, fld) + i - 1]]

Rows(batch, kind, fld) ==
    Flatten([s \in 1..Len(batch) |->
                [i \in 1..batch[s][fld] |-> Label(kind, batch[s].sid, i)]])

Total(batch, fld) == Offset(batch, Len(batch) + 1, fld)

\* the 7 inputs of ScenePredNet.forward for a batch; w is the width of a
\* TGT_RPE row, hist the number of history timesteps
Data(c, batch, w, hist) ==
    [actors     |-> <<Total(batch, "na"), c.in_actor, hist>>,
     actor_rows |-> Rows(batch, "actor", "na"),
     actor_idcs |-> Idcs(batch, "na"),
     lanes      |-> <<Total(batch, "nl"), 10, c.in_lane>>,
     lane_rows  |-> Rows(batch, "lane", "nl"),
     lane_idcs  |-> Idcs(batch, "nl"),
     rpe        |-> [s \in 1..Len(batch) |->
                        <<c.d_rpe_in, batch[s].na + batch[s].nl,
                          batch[s].na + batch[s].nl>>],
     tgt_nodes  |-> <<Len(batch), 10, c.in_lane>>,
     tgt_rows   |-> [s \in 1..Len(batch) |-> Label("tgt", batch[s].sid, 0)],
     tgt_rpe    |-> <<Len(batch), w>>]

ScenePredNet(c, dec, data) ==
    The({IF c.n_fpn_scale < 1      \* outputs[-1] of an empty list
         THEN NoResult("IndexError")
         ELSE IF IsErr(actors) \/ IsErr(lanes) \/ IsErr(tgt_feat)
         THEN NoResult("RuntimeError")
         ELSE The({IF fus.status # "ok" THEN NoResult("RuntimeError")
                   ELSE SceneDecoder(dec, fus.cls, fus.cls_rows, fus.actors,
                                     fus.actor_rows, data.actor_idcs, tgt_feat,
                                     data.tgt_rows, data.tgt_rpe) :
                      fus \in {FusionNet(c, actors, data.actor_rows, data.actor_idcs,
                                         lanes, data.lane_rows, data.lane_idcs,
                                         data.rpe)}}) :
            actors \in {ActorNet(c.in_actor, c.d_actor, c.n_fpn_scale, data.actors)},
            lanes \in {LaneNet(c.in_lane, c.d_lane, data.lanes)},
            tgt_feat \in {LaneNet(c.in_lane, c.d_lane, data.tgt_nodes)}})

(***************************************************************************)
(* Inputs.                                                                 *)
(***************************************************************************)
\* widths accepted by the decoder's 4 attention heads
HiddenSizes == {4}

\* "spline" stands for any value that is not a recognized parameterization
ParamOutValues == ParamOuts \cup {"spline"}

Config(po, h, steps, modes, layers, upd) ==
    [in_actor |-> 3, in_lane |-> 10, d_actor |-> h, d_lane |-> h,
     d_embed |-> h, d_rpe |-> h, d_rpe_in |-> 5, dropout |-> 0,
     update_edge |-> upd, n_scene_head |-> 2, n_scene_layer |-> layers,
     n_fpn_scale |-> 1,
     param_out |-> po, g_pred_len |-> steps, g_num_modes |-> modes]

Configs ==
    {Config(po, h, steps, modes, layers, upd) :
        po \in ParamOutValues, h \in HiddenSizes, steps \in 1..MaxSteps,
        modes \in 1..MaxModes, layers \in 1..MaxSceneLayers, upd \in BOOLEAN}

\* lane segments of one scene: none, or the single segment that LaneNet and
\* lanes[l_idcs] see as one row; LaneNet sees more rows in larger batches
LaneCounts == {0, 1}

SceneSet(sid) == {Scene(sid, na, nl) : na \in 1..MaxActors, nl \in LaneCounts}

\* ragged batches of 1..MaxScenes scenes; scene s carries sid = s
Batches ==
    UNION {{b \in [1..n -> UNION {SceneSet(sid) : sid \in 1..n}] :
               \A s \in 1..n : b[s].sid = s} : n \in 1..MaxScenes}

\* width of a TGT_RPE row: the documented 11 and the projection's 20
RpeWidths == {11, PROJ_RPE_IN}

\* outputs of the regression head: one control point set to <<1, 2>>, or a ramp
CtrlPoints ==
    {[i \in 1..(N_ORDER + 1) |-> IF i = j THEN <<1, 2>> ELSE <<0, 0>>] :
        j \in 1..(N_ORDER + 1)}
    \cup {[i \in 1..(N_ORDER + 1) |-> <<i, 0 - i>>]}

\* no control points: the regression head is not reached
NoCtrl == << >>

Idle == [op |-> "idle"]

NoRet == [status |-> "none"]

StatusOf(shape) == IF IsErr(shape) THEN "RuntimeError" ELSE "ok"

(***************************************************************************)
(* The state machine: a configuration is chosen, the network is built, and *)
(* the forward methods are called on inputs.                               *)
(***************************************************************************)
Init ==
    /\ cfg \in Configs
    /\ net = NotBuilt
    /\ call = Idle
    /\ ret = NoRet

\* ScenePredNet(cfg, device)
Construct ==
    /\ net.status = "new"
    /\ call.op = "idle"
    /\ net' = ScenePredNetInit(cfg)
    /\ call' = [op |-> "init"]
    /\ ret' = [status |-> net'.status]
    /\ UNCHANGED cfg

\* LaneNet(device, in_size, hidden_size).forward(feats), feats (l, 10, in_size)
LaneNetForward ==
    /\ call.op = "idle"
    /\ net.status # "new"
    /\ \E l \in 1..MaxSegs, h \in 1..MaxHidden :
          \E out \in {LaneNet(cfg.in_lane, h, <<l, 10, cfg.in_lane>>)} :
             /\ call' = [op |-> "lane_net", l |-> l, h |-> h]
             /\ ret' = [status |-> StatusOf(out), out |-> out]
    /\ UNCHANGED <<cfg, net>>

\* RelaFusionNet(...).forward(x, edge, None), x (n, d), edge (n, n, d_edge)
RelaFusionNetForward ==
    /\ call.op = "idle"
    /\ net.status # "new"
    /\ \E n \in 1..MaxTokens, layers \in 1..MaxLayers, upd \in BOOLEAN :
          \E run \in {FusionLoop(cfg.d_embed, cfg.d_rpe, layers, upd,
                                 <<n, cfg.d_embed>>, <<n, n, cfg.d_rpe>>, layers)} :
             /\ call' = [op |-> "fuse_scene", n |-> n, d |-> cfg.d_embed,
                         layers |-> layers, upd |-> upd]
             /\ ret' = IF IsErr(run[1])
                        THEN [status |-> "RuntimeError",
                              built |-> LayersBuilt(layers, upd),
                              updated |-> run[3]]
                        ELSE [status |-> "ok", out |-> run[1],
                              second |-> NoneValue,
                              built |-> LayersBuilt(layers, upd),
                              updated |-> run[3]]
    /\ UNCHANGED <<cfg, net>>

\* FusionNet(device, cfg).forward(actors, actor_idcs, lanes, lane_idcs, rpe)
FusionNetForward ==
    /\ call.op = "idle"
    /\ net.status # "new"
    /\ \E batch \in Batches :
          \E data \in {Data(cfg, batch, PROJ_RPE_IN, 5)} :
             /\ call' = [op |-> "fusion_net", batch |-> batch]
             /\ ret' = FusionNet(cfg, <<Total(batch, "na"), cfg.d_actor>>,
                                 data.actor_rows, data.actor_idcs,
                                 <<Total(batch, "nl"), cfg.d_lane>>,
                                 data.lane_rows, data.lane_idcs, data.rpe)
    /\ UNCHANGED <<cfg, net>>

\* net.pred_scene.forward(ctx, actors, actor_idcs, tgt_feat, tgt_rpes)
SceneDecoderForward ==
    /\ call.op = "idle"
    /\ net.status = "ok"
    /\ \E batch \in Batches, w \in RpeWidths :
          /\ \A s \in 1..Len(batch) : batch[s].nl = 0
          /\ \E data \in {Data(cfg, batch, w, 5)} :
             \E r \in {SceneDecoder(net.dec, <<Len(batch), net.dec.hidden_size>>,
                           [s \in 1..Len(batch) |-> Fused(ClsLabel, <<ClsLabel>>)],
                           <<Total(batch, "na"), net.dec.hidden_size>>,
                           data.actor_rows, data.actor_idcs,
                           <<Len(batch), net.dec.hidden_size>>, data.tgt_rows,
                           data.tgt_rpe)} :
                \E ctrl \in IF r.status = "ok" THEN CtrlPoints ELSE {NoCtrl} :
                   /\ call' = [op |-> "pred_scene", batch |-> batch,
                               w |-> w, ctrl |-> ctrl]
                   /\ ret' = WithTrajectory(net.dec, r, ctrl)
    /\ UNCHANGED <<cfg, net>>

\* net.forward(data)
ScenePredNetForward ==
    /\ call.op = "idle"
    /\ net.status = "ok"
    /\ \E batch \in Batches :
          \E data \in {Data(cfg, batch, PROJ_RPE_IN, 5)} :
             /\ call' = [op |-> "forward", batch |-> batch]
             /\ ret' = ScenePredNet(cfg, net.dec, data)
    /\ UNCHANGED <<cfg, net>>

\* the call returns to its caller
Return ==
    /\ call.op # "idle"
    /\ call' = Idle
    /\ ret' = NoRet
    /\ UNCHANGED <<cfg, net>>

Next ==
    \/ Construct
    \/ LaneNetForward
    \/ RelaFusionNetForward
    \/ FusionNetForward
    \/ SceneDecoderForward
    \/ ScenePredNetForward
    \/ Return

Spec == Init /\ [][Next]_vars

(***************************************************************************)
(* Properties.                                                             *)
(***************************************************************************)
DecoderCall == call.op \in {"pred_scene", "forward"}

Completed == DecoderCall /\ ret.status = "ok"

\* a completed direct call of the decoder, whose control points are call.ctrl
Decoded == call.op = "pred_scene" /\ ret.status = "ok"

Scale(p, d) == <<p[1] * d, p[2] * d>>

RECURSIVE SumPoints(_, _)
SumPoints(points, n) ==
    IF n = 0 THEN <<0, 0>>
    ELSE LET r == SumPoints(points, n - 1)
         IN  <<r[1] + points[n][1], r[2] + points[n][2]>>

\* C1: construction with a param_out other than 'bezier', 'monomial' or
\* 'none' raises NotImplementedError, leaves no usable decoder (no forward
\* is ever made on it) and substitutes no parameterization; with each of the
\* three recognized values construction succeeds and keeps the value given.
C1_ConstructionRejectsUnknownParamOut ==
    net.status # "new" =>
        IF cfg.param_out \in {"bezier", "monomial", "none"}
        THEN net.status = "ok" /\ net.dec.param_out = cfg.param_out
        ELSE /\ net.status = "NotImplementedError"
             /\ call.op \notin {"pred_scene", "forward"}
             /\ call.op = "init" => ret.status = "NotImplementedError"

C1_Witness ==
    /\ call.op = "init"
    /\ cfg.param_out = "spline"
    /\ net.status = "NotImplementedError"

\* C2 as stated: every trajectory entry a completed forward returns has
\* 4 channels on its last axis, with future_steps timesteps and K modes.
C2_Original ==
    Completed =>
        \A s \in 1..Len(call.batch) :
           ret.res_reg[s] = <<call.batch[s].na, cfg.g_num_modes, cfg.g_pred_len, 4>>

\* C2 amended: for 'bezier' and 'monomial' every trajectory entry has shape
\* (n, K, future_steps, 5): 2 position channels followed by 3 exponentiated
\* variance channels; for 'none' forward raises and returns no entry.
C2_TrajectoryHasFiveChannels ==
    /\ Completed =>
          /\ cfg.param_out \in {"bezier", "monomial"}
          /\ Len(ret.res_reg) = Len(call.batch)
          /\ \A s \in 1..Len(call.batch) :
                /\ ret.res_reg[s] = <<call.batch[s].na, cfg.g_num_modes,
                                      cfg.g_pred_len, POS_CH + 3>>
                /\ Last(ret.res_aux[s].vel) = POS_CH
    /\ (DecoderCall /\ cfg.param_out = "none") =>
          (ret.status # "ok" /\ ret.res_reg = << >>)

C2_Witness ==
    /\ Completed
    /\ cfg.param_out = "monomial"
    /\ cfg.g_num_modes = 2
    /\ cfg.g_pred_len = 3
    /\ ret.res_reg = << <<2, 2, 3, 5>> >>

\* C3 as stated: the probabilities entry of a scene group with n actors has
\* shape (n, K).
C3_Original ==
    Completed =>
        \A s \in 1..Len(call.batch) :
           ret.res_cls[s] = <<call.batch[s].na, cfg.g_num_modes>>

\* C3 amended: the probabilities entry of every scene group is one K-vector
\* of mode probabilities for the whole group, shape (1, K), whatever n is.
C3_ProbabilitiesOnePerScene ==
    Completed =>
        /\ Len(ret.res_cls) = Len(call.batch)
        /\ \A s \in 1..Len(call.batch) : ret.res_cls[s] = <<1, cfg.g_num_modes>>

C3_Witness ==
    /\ Completed
    /\ cfg.g_num_modes = 2
    /\ call.batch[1].na = 2
    /\ ret.res_cls[1] = <<1, 2>>

\* the tokens of scene s of a batch, in the order [actors; lanes; CLS]
SceneTokens(batch, s) ==
    [i \in 1..batch[s].na |-> Label("actor", batch[s].sid, i)]
      \o [i \in 1..batch[s].nl |-> Label("lane", batch[s].sid, i)]
      \o <<ClsLabel>>

\* C4: FusionNet.forward returns row r of the actor (lane) output computed
\* from input actor (lane) row r, and one CLS row per scene in scene order;
\* within a scene the first n_actors fused tokens are the actors, the next
\* n_lanes the lanes and the last one the CLS row.
C4_FusionKeepsRaggedOrder ==
    call.op = "fusion_net" =>
        LET b == call.batch
        IN  /\ ret.status = "ok"
            /\ ret.actors = <<Total(b, "na"), cfg.d_embed>>
            /\ ret.lanes = <<Total(b, "nl"), cfg.d_embed>>
            /\ ret.cls = <<Len(b), cfg.d_embed>>
            /\ [r \in 1..Len(ret.actor_rows) |-> ret.actor_rows[r].src]
                  = Rows(b, "actor", "na")
            /\ [r \in 1..Len(ret.lane_rows) |-> ret.lane_rows[r].src]
                  = Rows(b, "lane", "nl")
            /\ Len(ret.cls_rows) = Len(b)
            /\ \A s \in 1..Len(b) :
                  /\ ret.cls_rows[s] = Fused(ClsLabel, SceneTokens(b, s))
                  /\ \A i \in 1..b[s].na :
                        ret.actor_rows[Offset(b, s, "na") + i]
                           = Fused(SceneTokens(b, s)[i], SceneTokens(b, s))
                  /\ \A i \in 1..b[s].nl :
                        ret.lane_rows[Offset(b, s, "nl") + i]
                           = Fused(SceneTokens(b, s)[b[s].na + i], SceneTokens(b, s))

C4_Witness ==
    /\ call.op = "fusion_net"
    /\ ret.status = "ok"
    /\ Len(call.batch) = 2
    /\ call.batch[1].na = 2
    /\ call.batch[1].nl = 1
    /\ call.batch[2].na = 1
    /\ ret.actor_rows[3].src = Label("actor", 2, 1)

\* what forward returns for scene s of the batch it ran on
SceneResult(r, s) ==
    IF r.status = "ok"
    THEN <<r.res_cls[s], r.res_reg[s], r.res_aux[s], r.src[s]>>
    ELSE << >>

\* C5: what a completed ScenePredNet.forward returns for a scene of a batch
\* is what it returns when run on that scene alone.
C5_BatchSizeOneEquivalence ==
    (call.op = "forward" /\ ret.status = "ok") =>
        \A s \in 1..Len(call.batch) :
           \E data \in {Data(cfg, <<call.batch[s]>>, PROJ_RPE_IN, 5)} :
              \E alone \in {ScenePredNet(cfg, net.dec, data)} :
                 /\ alone.status = ret.status
                 /\ SceneResult(ret, s) = SceneResult(alone, 1)

\* C6: LaneNet.forward maps (L, 10, F) to (L, hidden_size) for every L >= 1
\* and hidden_size >= 1.
C6_LaneNetKeepsLeadingAxis ==
    call.op = "lane_net" => ret.out = <<call.l, call.h>>

\* C7: RelaFusionNet.forward on a single token (x (1, d_model), edge
\* (1, 1, d_edge)) completes for every n_layer >= 1 and returns (1, d_model).
C7_SingleTokenScene ==
    (call.op = "fuse_scene" /\ call.n = 1) =>
        (ret.status = "ok" /\ ret.out = <<1, call.d>>)

\* C8 as stated: for 'bezier' and 'monomial' and future_steps >= 2, the
\* position at the first timestep is the first control point and the
\* position at the last timestep is the last control point.
C8_Original ==
    (Decoded /\ cfg.g_pred_len >= 2) =>
        /\ ret.pos[1] = Scale(call.ctrl[1], net.dec.den)
        /\ ret.pos[cfg.g_pred_len] = Scale(call.ctrl[N_ORDER + 1], net.dec.den)

\* C8 amended: for future_steps >= 2 the position at the first timestep is
\* the first control point for both bases; at the last timestep it is the
\* last control point for 'bezier' and the sum of all N_ORDER + 1 control
\* points for 'monomial'.
C8_BoundaryInterpolation ==
    (Decoded /\ cfg.g_pred_len >= 2) =>
        /\ Len(ret.pos) = cfg.g_pred_len
        /\ ret.pos[1] = Scale(call.ctrl[1], net.dec.den)
        /\ cfg.param_out = "bezier" =>
              ret.pos[cfg.g_pred_len] = Scale(call.ctrl[N_ORDER + 1], net.dec.den)
        /\ cfg.param_out = "monomial" =>
              ret.pos[cfg.g_pred_len]
                 = Scale(SumPoints(call.ctrl, N_ORDER + 1), net.dec.den)

C8_Witness ==
    /\ Decoded
    /\ cfg.param_out = "bezier"
    /\ cfg.g_pred_len = 3
    /\ call.ctrl[1] = <<1, 1 - 2>>
    /\ call.ctrl[N_ORDER + 1] = <<8, 0 - 8>>
    /\ ret.pos[1] = <<128, 0 - 128>>
    /\ ret.pos[3] = <<1024, 0 - 1024>>

\* C9: a decoder built with param_out = 'none' completes forward on valid
\* inputs (TGT_RPE rows of the projection's width), returning one
\* (n, K, future_steps, .) trajectory entry per scene group and None as the
\* third auxiliary element.
C9_NoneForwardCompletes ==
    (call.op = "pred_scene" /\ cfg.param_out = "none" /\ call.w = PROJ_RPE_IN) =>
        /\ ret.status = "ok"
        /\ Len(ret.res_reg) = Len(call.batch)
        /\ \A s \in 1..Len(call.batch) :
              /\ SubSeq(ret.res_reg[s], 1, 3)
                    = <<call.batch[s].na, cfg.g_num_modes, cfg.g_pred_len>>
              /\ ret.res_aux[s].param_none

\* C10: SceneDecoder.forward accepts TGT_RPE rows of width 11 without a
\* shape-mismatch error.
C10_AcceptsElevenWideTargetRpe ==
    (call.op = "pred_scene" /\ call.w = 11) => ret.status # "RuntimeError"

\* C11: in every RelaFusionNet.forward, layer i (0-based) is built with
\* update_edge, and replaces the edge tensor, iff the update_edge option is
\* true and i < n_layer - 1; the final layer returns the edge tensor it
\* received (so with n_layer = 1 the caller's tensor goes through untouched);
\* forward returns node embeddings and None.
C11_EdgeUpdateExceptFinalLayer ==
    call.op = "fuse_scene" =>
        /\ \A k \in 1..call.layers :
              /\ ret.built[k] <=> (call.upd /\ k - 1 < call.layers - 1)
              /\ (k <= Len(ret.updated) /\ ret.updated[k].edge = k)
                    <=> (call.upd /\ k - 1 < call.layers - 1)
        /\ Len(ret.updated) = call.layers
        /\ ret.updated[call.layers].edge
              = EdgeIn(SubSeq(ret.updated, 1, call.layers - 1))
        /\ call.layers = 1 => ret.updated[1].edge = 0
        /\ ret.status = "ok"
        /\ ret.second = NoneValue

\* C12: in every scene group a completed forward decoded, for every actor,
\* the target term of the combined embedding is the scene's projected target
\* at mode index 0 and zero at every mode k >= 1; the other two terms are the
\* scene context and that actor, both at the same mode.
C12_TargetOnlyInModeZero ==
    Completed =>
        /\ Len(ret.embed) = Len(call.batch)
        /\ \A s \in 1..Len(call.batch) :
              /\ Len(ret.embed[s]) = cfg.g_num_modes
              /\ \A k \in 1..cfg.g_num_modes :
                    /\ Len(ret.embed[s][k]) = call.batch[s].na
                    /\ \A a \in 1..call.batch[s].na :
                          /\ ret.embed[s][k][a].tgt
                                = IF k = 1 THEN Label("tgt", call.batch[s].sid, 0)
                                  ELSE ZeroLabel
                          /\ ret.embed[s][k][a].ctx
                                = [mode |-> k - 1, row |-> ret.src[s].ctx]
                          /\ ret.embed[s][k][a].actor
                                = [mode |-> k - 1, row |-> ret.src[s].actors[a]]

C12_Witness ==
    /\ Completed
    /\ cfg.g_num_modes = 2
    /\ Len(call.batch) = 2
    /\ call.batch[2].na = 2
    /\ ret.embed[2][1][2].tgt = Label("tgt", 2, 0)
    /\ ret.embed[2][2][2].tgt = ZeroLabel

\* C13: for every scene FusionNet.forward processes, the tokens handed to
\* the fusion network are [actors; lanes; CLS], N = n_actors + n_lanes + 1 of
\* them, the last one the zero CLS row; the edge tensor is N x N x d_rpe, its
\* entry (i, j) the projected scene RPE entry (i, j) when neither i nor j is
\* the CLS position and zero on the CLS row and column; edge_mask is None.
C13_SceneTokensAndPaddedRpe ==
    call.op = "fusion_net" =>
        /\ Len(ret.scenes) = Len(call.batch)
        /\ \A s \in 1..Len(call.batch) :
              LET sc == ret.scenes[s]
                  N  == call.batch[s].na + call.batch[s].nl + 1
              IN  /\ sc.tokens = SceneTokens(call.batch, s)
                  /\ Len(sc.tokens) = N
                  /\ sc.tokens[N] = ClsLabel
                  /\ sc.edge = <<N, N, cfg.d_rpe>>
                  /\ Len(sc.edge_rows) = N
                  /\ \A i \in 1..N :
                        /\ Len(sc.edge_rows[i]) = N
                        /\ \A j \in 1..N :
                              sc.edge_rows[i][j]
                                 = IF i = N \/ j = N THEN ZeroEdge ELSE <<s, i, j>>
                  /\ sc.edge_mask = NoneValue

C13_Witness ==
    /\ call.op = "fusion_net"
    /\ ret.status = "ok"
    /\ Len(call.batch) = 2
    /\ call.batch[2].na = 2
    /\ call.batch[2].nl = 1
    /\ ret.scenes[2].edge = <<4, 4, cfg.d_rpe>>
    /\ ret.scenes[2].edge_rows[1][3] = <<2, 1, 3>>
    /\ ret.scenes[2].edge_rows[4][1] = ZeroEdge
    /\ ret.scenes[2].edge_rows[2][4] = ZeroEdge
    /\ ret.scenes[2].tokens[4] = ClsLabel

====
